---- MODULE Spec2Model ----
(***************************************************************************)
(* Model of homework.py: the fitness-tracker calculation hierarchy         *)
(* (Training, Running, SportsWalking, Swimming), the InfoMessage           *)
(* formatter, read_package and the __main__ driver loop.                   *)
(*                                                                         *)
(* Numbers.  Python ints and floats are modelled as exact rationals        *)
(* <<numerator, denominator>> in lowest terms with a positive denominator. *)
(* The rounding of IEEE doubles is abstracted away; everything else        *)
(* (operator order, floor division, division by zero, the order in which   *)
(* the arguments of a call are evaluated) follows the source.              *)
(***************************************************************************)
EXTENDS Integers, Sequences, FiniteSets, TLC

VARIABLES
    cls,        \* class attributes: class name -> (attribute name -> value)
    objs,       \* the instances held by the caller, one per reference
    origin,     \* how the instance of each reference was constructed
    last,       \* the last call made through the public functions and its outcome
    reports,    \* per reference: the InfoMessages show_training_info returned
    packages,   \* __main__: the list of (workout_type, data) entries
    idx,        \* __main__: position of the for loop in packages (1-based)
    pc,         \* __main__: the statement the driver is at
    training,   \* __main__: the loop variable `training`
    info,       \* main(): the local `info`
    stdout,     \* the lines printed so far
    exc         \* the exception that ended the driver, if any

vars == <<cls, objs, origin, last, reports,
          packages, idx, pc, training, info, stdout, exc>>

apiVars == <<cls, objs, origin, last, reports>>
mainVars == <<packages, idx, pc, training, info, stdout, exc>>

---------------------------------------------------------------------------
(* Rational arithmetic                                                     *)

Abs(n) == IF n < 0 THEN -n ELSE n

RECURSIVE GCD(_, _)
GCD(a, b) == IF b = 0 THEN a ELSE GCD(b, a % b)

\* n/d in lowest terms, d # 0
Norm(n, d) ==
    LET s == IF d < 0 THEN -1 ELSE 1
        g == GCD(Abs(n), Abs(d))
    IN  <<(s * n) \div g, (s * d) \div g>>

R(n) == <<n, 1>>
\* sums and products reduce by the common factors first, so that the
\* intermediate integers stay small
Add(p, q) ==
    LET g == GCD(p[2], q[2])
    IN  Norm(p[1] * (q[2] \div g) + q[1] * (p[2] \div g), (p[2] \div g) * q[2])
Sub(p, q) == Add(p, <<-q[1], q[2]>>)
Mul(p, q) ==
    LET g == GCD(Abs(p[1]), q[2])
        h == GCD(Abs(q[1]), p[2])
    IN  Norm((p[1] \div g) * (q[1] \div h), (p[2] \div h) * (q[2] \div g))
Quot(p, q) == Mul(p, Norm(q[2], q[1]))                \* q # 0
Less(p, q) == p[1] * q[2] < q[1] * p[2]
Leq(p, q) == p[1] * q[2] <= q[1] * p[2]
IsZero(p) == p[1] = 0
Floor(p) == p[1] \div p[2]                            \* p[2] > 0

---------------------------------------------------------------------------
(* Outcome of a call: a returned value or a raised exception               *)

Ok(v) == [ok |-> TRUE, val |-> v]
Raise(e) == [ok |-> FALSE, err |-> e]
Raised(r, e) == ~r.ok /\ r.err = e

\* Python's `/`
TrueDiv(p, q) == IF IsZero(q) THEN Raise("ZeroDivisionError") ELSE Ok(Quot(p, q))
\* Python's `//` on numbers
FloorDiv(p, q) == IF IsZero(q) THEN Raise("ZeroDivisionError") ELSE Ok(R(Floor(Quot(p, q))))

---------------------------------------------------------------------------
(* Classes                                                                 *)

\* The class bodies: the attributes each class statement defines.
ClassAttrs ==
    [ Training      |-> [ M_IN_KM |-> R(1000), LEN_STEP |-> <<13, 20>>,
                          HOURS_TO_MINUTES |-> R(60) ],
      Running       |-> [ COEFF_CALORIES_1 |-> R(18), COEFF_CALORIES_2 |-> R(20) ],
      SportsWalking |-> [ COEFF_CALORIES_1 |-> <<7, 200>>, COEFF_CALORIES_2 |-> <<29, 1000>> ],
      Swimming      |-> [ LEN_STEP |-> <<69, 50>>, COEFF_CALORIES_1 |-> <<11, 10>> ] ]

Subclasses == {"Running", "SportsWalking", "Swimming"}
Classes == {"Training"} \cup Subclasses

\* self.NAME: the class of the instance first, then the base class
Attr(o, name) ==
    IF name \in DOMAIN cls[o.cls] THEN cls[o.cls][name] ELSE cls["Training"][name]

NoObj == [cls |-> "None"]
NoCall == [op |-> "none"]

\* Training.__init__
Training_init(c, action, duration, weight) ==
    [cls |-> c, action |-> action, duration |-> duration, weight |-> weight]

\* SportsWalking.__init__
SportsWalking_init(c, action, duration, weight, height) ==
    [cls |-> c, action |-> action, duration |-> duration, weight |-> weight,
     height |-> height]

\* Swimming.__init__
Swimming_init(c, action, duration, weight, length_pool, count_pool) ==
    [cls |-> c, action |-> action, duration |-> duration, weight |-> weight,
     length_pool |-> length_pool, count_pool |-> count_pool]

\* Number of positional arguments the constructor of class c takes
Arity(c) == CASE c = "SportsWalking" -> 4
              [] c = "Swimming" -> 5
              [] OTHER -> 3

\* c(*data): a call with the wrong number of arguments is a TypeError
Construct(c, data) ==
    IF Len(data) # Arity(c) THEN Raise("TypeError")
    ELSE CASE c = "SportsWalking" ->
                Ok(SportsWalking_init(c, data[1], data[2], data[3], data[4]))
           [] c = "Swimming" ->
                Ok(Swimming_init(c, data[1], data[2], data[3], data[4], data[5]))
           [] OTHER ->
                Ok(Training_init(c, data[1], data[2], data[3]))

---------------------------------------------------------------------------
(* Methods                                                                 *)

\* Training.get_distance: self.action * self.LEN_STEP / self.M_IN_KM
Training_get_distance(o) ==
    TrueDiv(Mul(o.action, Attr(o, "LEN_STEP")), Attr(o, "M_IN_KM"))

get_distance(o) == Training_get_distance(o)

\* (mutant) Training.get_mean_speed guarding against a zero duration
Training_get_mean_speed_Guarded(o) ==
    LET d == get_distance(o)
    IN  IF ~d.ok THEN d
        ELSE IF IsZero(o.duration) THEN Ok(R(0))
        ELSE TrueDiv(d.val, o.duration)

\* Training.get_mean_speed: self.get_distance() / self.duration
Training_get_mean_speed(o) ==
    LET d == get_distance(o)
    IN  IF ~d.ok THEN d ELSE TrueDiv(d.val, o.duration)

\* Swimming.get_mean_speed:
\* self.length_pool * self.count_pool / self.M_IN_KM / self.duration
Swimming_get_mean_speed(o) ==
    LET km == TrueDiv(Mul(o.length_pool, o.count_pool), Attr(o, "M_IN_KM"))
    IN  IF ~km.ok THEN km ELSE TrueDiv(km.val, o.duration)

\* (mutant) Swimming without its own get_mean_speed
get_mean_speed_NoOverride(o) == Training_get_mean_speed(o)

\* method resolution of get_mean_speed
get_mean_speed(o) ==
    IF o.cls = "Swimming" THEN Swimming_get_mean_speed(o)
    ELSE Training_get_mean_speed(o)

\* Training.get_spent_calories
Training_get_spent_calories(o) == Raise("NotImplementedError")

\* (mutant) Running.get_spent_calories adding the second coefficient
Running_get_spent_calories_Plus(o) ==
    LET ms == get_mean_speed(o)
    IN  IF ~ms.ok THEN ms
        ELSE LET a == Add(Mul(Attr(o, "COEFF_CALORIES_1"), ms.val),
                          Attr(o, "COEFF_CALORIES_2"))
                 b == TrueDiv(Mul(a, o.weight), Attr(o, "M_IN_KM"))
             IN  IF ~b.ok THEN b
                 ELSE Ok(Mul(Mul(b.val, o.duration), Attr(o, "HOURS_TO_MINUTES")))

\* Running.get_spent_calories
Running_get_spent_calories(o) ==
    LET ms == get_mean_speed(o)
    IN  IF ~ms.ok THEN ms
        ELSE LET a == Sub(Mul(Attr(o, "COEFF_CALORIES_1"), ms.val),
                          Attr(o, "COEFF_CALORIES_2"))
                 b == TrueDiv(Mul(a, o.weight), Attr(o, "M_IN_KM"))
             IN  IF ~b.ok THEN b
                 ELSE Ok(Mul(Mul(b.val, o.duration), Attr(o, "HOURS_TO_MINUTES")))

\* (mutant) SportsWalking.get_spent_calories with `/` in place of `//`
SportsWalking_get_spent_calories_TrueDiv(o) ==
    LET ms == get_mean_speed(o)
    IN  IF ~ms.ok THEN ms
        ELSE LET first == Mul(Attr(o, "COEFF_CALORIES_1"), o.weight)
                 fd == TrueDiv(Mul(ms.val, ms.val), o.height)
             IN  IF ~fd.ok THEN fd
                 ELSE LET second == Mul(Mul(fd.val, Attr(o, "COEFF_CALORIES_2")),
                                        o.weight)
                      IN  Ok(Mul(Mul(Add(first, second), o.duration),
                                 Attr(o, "HOURS_TO_MINUTES")))

\* SportsWalking.get_spent_calories
SportsWalking_get_spent_calories(o) ==
    LET ms == get_mean_speed(o)
    IN  IF ~ms.ok THEN ms
        ELSE LET first == Mul(Attr(o, "COEFF_CALORIES_1"), o.weight)
                 fd == FloorDiv(Mul(ms.val, ms.val), o.height)
             IN  IF ~fd.ok THEN fd
                 ELSE LET second == Mul(Mul(fd.val, Attr(o, "COEFF_CALORIES_2")),
                                        o.weight)
                      IN  Ok(Mul(Mul(Add(first, second), o.duration),
                                 Attr(o, "HOURS_TO_MINUTES")))

\* (mutant) Swimming.get_spent_calories subtracting the coefficient
Swimming_get_spent_calories_Minus(o) ==
    LET ms == get_mean_speed(o)
    IN  IF ~ms.ok THEN ms
        ELSE Ok(Mul(Mul(Sub(ms.val, Attr(o, "COEFF_CALORIES_1")), R(2)), o.weight))

\* Swimming.get_spent_calories
Swimming_get_spent_calories(o) ==
    LET ms == get_mean_speed(o)
    IN  IF ~ms.ok THEN ms
        ELSE Ok(Mul(Mul(Add(ms.val, Attr(o, "COEFF_CALORIES_1")), R(2)), o.weight))

\* (mutant) Swimming without its own get_spent_calories
get_spent_calories_NoSwimming(o) ==
    CASE o.cls = "Running" -> Running_get_spent_calories(o)
      [] o.cls = "SportsWalking" -> SportsWalking_get_spent_calories(o)
      [] OTHER -> Training_get_spent_calories(o)

\* method resolution of get_spent_calories
get_spent_calories(o) ==
    CASE o.cls = "Running" -> Running_get_spent_calories(o)
      [] o.cls = "SportsWalking" -> SportsWalking_get_spent_calories(o)
      [] o.cls = "Swimming" -> Swimming_get_spent_calories(o)
      [] OTHER -> Training_get_spent_calories(o)

\* (mutant) show_training_info calling the base get_mean_speed
show_training_info_BaseSpeed(o) ==
    LET d == get_distance(o)
        ms == Training_get_mean_speed(o)
        sc == get_spent_calories(o)
    IN  IF ~d.ok THEN d
        ELSE IF ~ms.ok THEN ms
        ELSE IF ~sc.ok THEN sc
        ELSE Ok([training_type |-> o.cls, duration |-> o.duration,
                 distance |-> d.val, speed |-> ms.val, calories |-> sc.val])

\* Training.show_training_info: the arguments of InfoMessage(...) are
\* evaluated left to right, the first exception ends the call
show_training_info(o) ==
    LET d == get_distance(o)
        ms == get_mean_speed(o)
        sc == get_spent_calories(o)
    IN  IF ~d.ok THEN d
        ELSE IF ~ms.ok THEN ms
        ELSE IF ~sc.ok THEN sc
        ELSE Ok([training_type |-> o.cls, duration |-> o.duration,
                 distance |-> d.val, speed |-> ms.val, calories |-> sc.val])

\* format(x, '0.3f'): sign, integer part and three decimals of x rounded to
\* the nearest thousandth (ties to even)
Fmt3(q) ==
    LET m == Mul(Norm(Abs(q[1]), q[2]), R(1000))
        fl == Floor(m)
        twice == 2 * (m[1] - fl * m[2])
        r == IF twice < m[2] THEN fl
             ELSE IF twice > m[2] THEN fl + 1
             ELSE IF fl % 2 = 0 THEN fl ELSE fl + 1
    IN  [neg |-> q[1] < 0, whole |-> r \div 1000, frac |-> r % 1000]

\* InfoMessage.get_message
get_message(m) ==
    <<m.training_type, Fmt3(m.duration), Fmt3(m.distance), Fmt3(m.speed),
      Fmt3(m.calories)>>

\* read_package: the dictionary of workout types
traning_class ==
    [RUN |-> "Running", WLK |-> "SportsWalking", SWM |-> "Swimming"]

\* (mutant) read_package falling back to Running for an unknown type
read_package_Default(workout_type, data) ==
    IF workout_type \notin DOMAIN traning_class THEN Construct("Running", data)
    ELSE Construct(traning_class[workout_type], data)

\* read_package
read_package(workout_type, data) ==
    IF workout_type \notin DOMAIN traning_class THEN Raise("ValueError")
    ELSE Construct(traning_class[workout_type], data)

---------------------------------------------------------------------------
(* Inputs                                                                  *)

MaxHalfHours == 2
MaxPackages == 3

ActionCounts == {R(0), R(720), R(9000), R(15000)}
Durations == {Norm(i, 2) : i \in 0..MaxHalfHours}
Weights == {R(75), R(80)}
Heights == {R(0), R(10), R(180)}
PoolLengths == {R(25)}
PoolCounts == {R(0), R(40)}

Data3 == {<<a, d, w>> : a \in ActionCounts, d \in Durations, w \in Weights}
Data4 == {t \o <<h>> : t \in Data3, h \in Heights}
Data5 == {t \o <<l, c>> : t \in Data3, l \in PoolLengths, c \in PoolCounts}

\* The three packages of __main__
SWM_package == <<"SWM", <<R(720), R(1), R(80), R(25), R(40)>>>>
RUN_package == <<"RUN", <<R(15000), R(1), R(75)>>>>
WLK_package == <<"WLK", <<R(9000), R(1), R(75), R(180)>>>>
MainPackages == {SWM_package, RUN_package, WLK_package}

WorkoutTypes == {"RUN", "WLK", "SWM", "BIKE", "run"}

\* Packages whose data fits the workout type, over all the input values
WellFormed ==
    ({"RUN"} \X Data3) \cup ({"WLK"} \X Data4) \cup ({"SWM"} \X Data5)

\* Packages with an unknown workout type or with data of another type
Malformed ==
    {<<wt, p[2]>> : wt \in WorkoutTypes, p \in MainPackages} \ WellFormed

Packages == WellFormed \cup Malformed

\* The packages of __main__ and variations of them
Entries ==
    MainPackages \cup
    { <<"BIKE", <<R(15000), R(1), R(75)>>>>,
      <<"RUN", <<R(15000), R(0), R(75)>>>>,
      <<"WLK", <<R(9000), R(1), R(75), R(0)>>>>,
      <<"RUN", <<R(9000), R(1), R(75), R(180)>>>> }

RECURSIVE ListsUpTo(_, _)
ListsUpTo(S, n) ==
    IF n = 0 THEN {<<>>}
    ELSE LET shorter == ListsUpTo(S, n - 1)
         IN  shorter \cup {Append(l, e) : l \in shorter, e \in S}

Refs == {"a", "b"}

---------------------------------------------------------------------------
(* Calls made by a client of the module                                    *)

\* s = read_package(workout_type, data)
CallReadPackage(s, workout_type, data) ==
    /\ pc = "idle"
    /\ LET r == read_package(workout_type, data)
       IN  /\ last' = [op |-> "read_package", ref |-> s, workout_type |-> workout_type,
                       data |-> data, res |-> r]
           /\ objs' = IF r.ok THEN [objs EXCEPT ![s] = r.val] ELSE objs
           /\ origin' = IF r.ok THEN [origin EXCEPT ![s] = "read_package"] ELSE origin
           /\ reports' = IF r.ok THEN [reports EXCEPT ![s] = {}] ELSE reports
    /\ UNCHANGED <<cls, mainVars>>

\* s = Training(action, duration, weight): an instance of the base class
CallTraining(s, action, duration, weight) ==
    /\ pc = "idle"
    /\ LET o == Training_init("Training", action, duration, weight)
       IN  /\ last' = [op |-> "Training", ref |-> s, res |-> Ok(o)]
           /\ objs' = [objs EXCEPT ![s] = o]
           /\ origin' = [origin EXCEPT ![s] = "Training"]
           /\ reports' = [reports EXCEPT ![s] = {}]
    /\ UNCHANGED <<cls, mainVars>>

\* s.get_distance()
CallGetDistance(s) ==
    /\ pc = "idle"
    /\ objs[s] # NoObj
    /\ last' = [op |-> "get_distance", ref |-> s, res |-> get_distance(objs[s])]
    /\ UNCHANGED <<cls, objs, origin, reports, mainVars>>

\* s.get_mean_speed()
CallGetMeanSpeed(s) ==
    /\ pc = "idle"
    /\ objs[s] # NoObj
    /\ last' = [op |-> "get_mean_speed", ref |-> s, res |-> get_mean_speed(objs[s])]
    /\ UNCHANGED <<cls, objs, origin, reports, mainVars>>

\* s.get_spent_calories()
CallGetSpentCalories(s) ==
    /\ pc = "idle"
    /\ objs[s] # NoObj
    /\ last' = [op |-> "get_spent_calories", ref |-> s,
                res |-> get_spent_calories(objs[s])]
    /\ UNCHANGED <<cls, objs, origin, reports, mainVars>>

\* (mutant) show_training_info resetting the action counter once reported
CallShowTrainingInfo_Resetting(s) ==
    /\ pc = "idle"
    /\ objs[s] # NoObj
    /\ LET r == show_training_info(objs[s])
       IN  /\ last' = [op |-> "show_training_info", ref |-> s, res |-> r]
           /\ reports' = IF r.ok THEN [reports EXCEPT ![s] = @ \cup {r.val}]
                         ELSE reports
           /\ objs' = IF r.ok THEN [objs EXCEPT ![s].action = R(0)] ELSE objs
    /\ UNCHANGED <<cls, origin, mainVars>>

\* s.show_training_info()
CallShowTrainingInfo(s) ==
    /\ pc = "idle"
    /\ objs[s] # NoObj
    /\ LET r == show_training_info(objs[s])
       IN  /\ last' = [op |-> "show_training_info", ref |-> s, res |-> r]
           /\ reports' = IF r.ok THEN [reports EXCEPT ![s] = @ \cup {r.val}]
                         ELSE reports
    /\ UNCHANGED <<cls, objs, origin, mainVars>>

\* s.show_training_info().get_message(), on the InfoMessage just returned
CallGetMessage(s) ==
    /\ pc = "idle"
    /\ last.op = "show_training_info" /\ last.ref = s /\ last.res.ok
    /\ last' = [op |-> "get_message", ref |-> s, res |-> Ok(get_message(last.res.val))]
    /\ UNCHANGED <<cls, objs, origin, reports, mainVars>>

InitApi ==
    /\ cls = ClassAttrs
    /\ objs = [s \in Refs |-> NoObj]
    /\ origin = [s \in Refs |-> "none"]
    /\ last = NoCall
    /\ reports = [s \in Refs |-> {}]

Init ==
    /\ InitApi
    /\ packages = <<>> /\ idx = 1 /\ pc = "idle"
    /\ training = NoObj /\ info = NoObj /\ stdout = <<>> /\ exc = "none"

\* A client holding one instance, with every input of the bounded domains
Next ==
    \/ \E p \in Packages : CallReadPackage("a", p[1], p[2])
    \/ \E t \in Data3 : CallTraining("a", t[1], t[2], t[3])
    \/ CallGetDistance("a")
    \/ CallGetMeanSpeed("a")
    \/ CallGetSpentCalories("a")
    \/ CallShowTrainingInfo("a")
    \/ CallGetMessage("a")

Spec == Init /\ [][Next]_vars

\* A client holding two instances at once
NextShared ==
    \/ \E s \in Refs, e \in Entries : CallReadPackage(s, e[1], e[2])
    \/ \E s \in Refs, e \in Entries :
          Len(e[2]) = 3 /\ CallTraining(s, e[2][1], e[2][2], e[2][3])
    \/ \E s \in Refs : CallGetDistance(s)
    \/ \E s \in Refs : CallGetMeanSpeed(s)
    \/ \E s \in Refs : CallGetSpentCalories(s)
    \/ \E s \in Refs : CallShowTrainingInfo(s)
    \/ \E s \in Refs : CallGetMessage(s)

SpecShared == Init /\ [][NextShared]_vars

---------------------------------------------------------------------------
(* The driver: the body of `if __name__ == '__main__'` and main()          *)

\* (mutant) the loop catching the error of read_package and moving on
Resolve_Skipping ==
    /\ pc = "for" /\ idx <= Len(packages)
    /\ LET r == read_package(packages[idx][1], packages[idx][2])
       IN  IF r.ok
           THEN /\ training' = r.val
                /\ pc' = "print_training"
                /\ idx' = idx
           ELSE /\ pc' = "for"
                /\ idx' = idx + 1
                /\ training' = training
    /\ UNCHANGED <<apiVars, packages, info, stdout, exc>>

\* for workout_type, data in packages: training = read_package(workout_type, data)
Resolve ==
    /\ pc = "for" /\ idx <= Len(packages)
    /\ LET r == read_package(packages[idx][1], packages[idx][2])
       IN  IF r.ok
           THEN /\ training' = r.val
                /\ pc' = "print_training"
                /\ exc' = exc
           ELSE /\ pc' = "failed"
                /\ exc' = r.err
                /\ training' = training
    /\ UNCHANGED <<apiVars, packages, idx, info, stdout>>

\* print(training)
PrintTraining ==
    /\ pc = "print_training"
    /\ stdout' = Append(stdout, [entry |-> idx, line |-> <<"object", training.cls>>])
    /\ pc' = "main"
    /\ UNCHANGED <<apiVars, packages, idx, training, info, exc>>

\* main(training): info = training.show_training_info()
MainShow ==
    /\ pc = "main"
    /\ LET r == show_training_info(training)
       IN  IF r.ok
           THEN /\ info' = r.val
                /\ pc' = "main_print"
                /\ exc' = exc
           ELSE /\ pc' = "failed"
                /\ exc' = r.err
                /\ info' = info
    /\ UNCHANGED <<apiVars, packages, idx, training, stdout>>

\* main(training): print(info.get_message()); the loop moves to the next entry
MainPrint ==
    /\ pc = "main_print"
    /\ stdout' = Append(stdout, [entry |-> idx, line |-> get_message(info)])
    /\ idx' = idx + 1
    /\ pc' = "for"
    /\ UNCHANGED <<apiVars, packages, training, info, exc>>

\* the list is exhausted: the script ends normally
Finish ==
    /\ pc = "for" /\ idx > Len(packages)
    /\ pc' = "done"
    /\ UNCHANGED <<apiVars, packages, idx, training, info, stdout, exc>>

InitMain ==
    /\ InitApi
    /\ packages \in ListsUpTo(Entries, MaxPackages)
    /\ idx = 1 /\ pc = "for"
    /\ training = NoObj /\ info = NoObj /\ stdout = <<>> /\ exc = "none"

NextMain == Resolve \/ PrintTraining \/ MainShow \/ MainPrint \/ Finish

SpecMain == InitMain /\ [][NextMain]_vars

---------------------------------------------------------------------------
(* Properties                                                              *)

Pos(q) == q[1] > 0
NonNeg(q) == q[1] >= 0

MethodOps == {"get_distance", "get_mean_speed", "get_spent_calories",
              "show_training_info"}

\* the last call was method m, on an instance
Called(m) == last.op = m

\* the instance the last call was made on (or returned)
Self == objs[last.ref]

\* a valid sample: the ranges of section 3 of the specification
Valid(o) ==
    /\ NonNeg(o.action) /\ Pos(o.duration) /\ Pos(o.weight)
    /\ o.cls = "SportsWalking" => Pos(o.height)
    /\ o.cls = "Swimming" => Pos(o.length_pool) /\ NonNeg(o.count_pool)

\* action * 0.65 / 1000 / duration, written out
StepSpeed(o) == Quot(Mul(o.action, <<65, 100>>), Mul(R(1000), o.duration))
\* pool_length * lap_count / 1000 / duration, written out
PoolSpeed(o) == Quot(Mul(o.length_pool, o.count_pool), Mul(R(1000), o.duration))

\* C1 as stated: for every valid sample of every variant, distance, mean
\* speed and spent calories are all non-negative.
C1_AllNonNegative ==
    (last.op \in {"get_distance", "get_mean_speed", "get_spent_calories"}
        /\ Self.cls \in Subclasses /\ Valid(Self))
    => last.res.ok /\ NonNeg(last.res.val)

\* C1 amended: for every valid sample, distance and mean speed are
\* non-negative for every variant, calories are non-negative for
\* SportsWalking and Swimming, and the calories of Running are non-negative
\* exactly when 18 * mean_speed >= 20.
C1_NonNegativeExceptSlowRunning ==
    (last.op \in {"get_distance", "get_mean_speed", "get_spent_calories"}
        /\ Self.cls \in Subclasses /\ Valid(Self))
    => /\ last.res.ok
       /\ Called("get_distance") => NonNeg(last.res.val)
       /\ Called("get_mean_speed") => NonNeg(last.res.val)
       /\ Called("get_spent_calories") /\ Self.cls # "Running"
            => NonNeg(last.res.val)
       /\ Called("get_spent_calories") /\ Self.cls = "Running"
            => (NonNeg(last.res.val) <=> Leq(R(20), Mul(R(18), StepSpeed(Self))))

C1_Witness ==
    /\ Called("get_spent_calories") /\ Self.cls = "Running" /\ Valid(Self)
    /\ Self.action = R(0) /\ Self.duration = R(1) /\ Self.weight = R(75)
    /\ last.res = Ok(R(-90))

\* C2: read_package returns a Running instance for 'RUN', a SportsWalking
\* instance for 'WLK' and a Swimming instance for 'SWM', built from the
\* positional values of data in order (data holding as many values as the
\* variant has fields); for every other kind code it fails with the
\* unknown-workout-kind error and constructs no instance.
C2_Outcome ==
    LET wt == last.workout_type
        data == last.data
        r == last.res
    IN  /\ wt = "RUN" /\ Len(data) = 3
            => /\ r = Ok([cls |-> "Running", action |-> data[1],
                          duration |-> data[2], weight |-> data[3]])
               /\ Self = r.val
        /\ wt = "WLK" /\ Len(data) = 4
            => /\ r = Ok([cls |-> "SportsWalking", action |-> data[1],
                          duration |-> data[2], weight |-> data[3],
                          height |-> data[4]])
               /\ Self = r.val
        /\ wt = "SWM" /\ Len(data) = 5
            => /\ r = Ok([cls |-> "Swimming", action |-> data[1],
                          duration |-> data[2], weight |-> data[3],
                          length_pool |-> data[4], count_pool |-> data[5]])
               /\ Self = r.val
        /\ wt \notin {"RUN", "WLK", "SWM"} => Raised(r, "ValueError")

C2_Resolver ==
    /\ [](Called("read_package") => C2_Outcome)
    /\ [][(last'.op = "read_package" /\ ~last'.res.ok)
            => (objs' = objs /\ origin' = origin)]_vars

C2_Witness ==
    /\ Called("read_package") /\ last.workout_type = "BIKE"
    /\ Raised(last.res, "ValueError")
    /\ Self.cls = "Swimming" /\ origin[last.ref] = "read_package"

\* the formulas of C3 for the instance of the last call; `kcal` is the
\* calorie figure of the sample action=15000, duration=1, weight=75
C3_Formulas(kcal) ==
    (last.op \in MethodOps /\ Self.cls = "Running" /\ Pos(Self.duration))
    => LET o == Self
           dist == Quot(Mul(o.action, <<65, 100>>), R(1000))
           speed == Quot(dist, o.duration)
           cal == Mul(Mul(Quot(Mul(Sub(Mul(R(18), speed), R(20)), o.weight),
                               R(1000)), o.duration), R(60))
           sample == o.action = R(15000) /\ o.duration = R(1) /\ o.weight = R(75)
       IN  /\ Called("get_distance") => last.res = Ok(dist)
           /\ Called("get_mean_speed") => last.res = Ok(speed)
           /\ Called("get_spent_calories") => last.res = Ok(cal)
           /\ Called("get_distance") /\ sample => last.res.val = <<39, 4>>
           /\ Called("get_mean_speed") /\ sample => last.res.val = <<39, 4>>
           /\ Called("get_spent_calories") /\ sample => last.res.val = kcal

\* C3 as stated: for every Running sample with duration > 0, get_distance()
\* = action * 0.65 / 1000, get_mean_speed() = get_distance() / duration and
\* get_spent_calories() = (18 * mean_speed - 20) * weight / 1000 * duration
\* * 60; action=15000, duration=1, weight=75 gives 9.750, 9.750 and 657.000.
C3_RunningSample657 == C3_Formulas(R(657))

\* C3 amended: the same three formulas; action=15000, duration=1, weight=75
\* gives distance 9.750, mean speed 9.750 and calories 699.750 (2799/4).
C3_Running == C3_Formulas(<<2799, 4>>)

C3_Witness ==
    /\ Called("get_spent_calories") /\ Self.cls = "Running"
    /\ Self.action = R(15000) /\ Self.duration = R(1) /\ Self.weight = R(75)
    /\ last.res = Ok(<<2799, 4>>)

\* C4: for every SportsWalking sample with duration > 0 and height > 0,
\* get_spent_calories() = (0.035 * weight + floor(mean_speed^2 / height) *
\* 0.029 * weight) * duration * 60 with the floor of the quotient, so that
\* whenever mean_speed^2 < height the result is 0.035 * weight * duration *
\* 60; action=9000, duration=1, weight=75, height=180 gives 157.500.
C4_Walking ==
    (Called("get_spent_calories") /\ Self.cls = "SportsWalking"
        /\ Pos(Self.duration) /\ Pos(Self.height))
    => LET o == Self
           speed == StepSpeed(o)
           sq == Mul(speed, speed)
           fl == R(Floor(Quot(sq, o.height)))
           basal == Mul(<<35, 1000>>, o.weight)
           cal == Mul(Mul(Add(basal, Mul(Mul(fl, <<29, 1000>>), o.weight)),
                          o.duration), R(60))
       IN  /\ last.res = Ok(cal)
           /\ Less(sq, o.height)
                => last.res.val = Mul(Mul(basal, o.duration), R(60))
           /\ (o.action = R(9000) /\ o.duration = R(1) /\ o.weight = R(75)
                 /\ o.height = R(180))
                => last.res.val = <<315, 2>>

C4_Witness ==
    /\ Called("get_spent_calories") /\ Self.cls = "SportsWalking"
    /\ Self.action = R(9000) /\ Self.duration = R(1) /\ Self.weight = R(75)
    /\ Self.height = R(10)
    /\ last.res = Ok(Mul(Add(<<2625, 1000>>, Mul(R(3), <<2175, 1000>>)), R(60)))

\* C5: for every Swimming sample with duration > 0, get_mean_speed() =
\* pool_length * lap_count / 1000 / duration whatever the action count,
\* get_distance() = action * 1.38 / 1000 whatever the pool length and lap
\* count, and get_spent_calories() = (mean_speed + 1.1) * 2 * weight;
\* action=720, duration=1, weight=80, pool_length=25, lap_count=40 gives
\* mean speed 1.000, calories 336.000 and distance 0.9936.
C5_Swimming ==
    (last.op \in MethodOps /\ Self.cls = "Swimming" /\ Pos(Self.duration))
    => LET o == Self
           speed == PoolSpeed(o)
           sample == /\ o.action = R(720) /\ o.duration = R(1) /\ o.weight = R(80)
                     /\ o.length_pool = R(25) /\ o.count_pool = R(40)
       IN  /\ Called("get_mean_speed")
                => /\ last.res = Ok(speed)
                   /\ \A a \in ActionCounts :
                         get_mean_speed([o EXCEPT !.action = a]) = last.res
                   /\ sample => last.res.val = R(1)
           /\ Called("get_distance")
                => /\ last.res = Ok(Quot(Mul(o.action, <<138, 100>>), R(1000)))
                   /\ \A l \in PoolLengths, c \in PoolCounts :
                         get_distance([o EXCEPT !.length_pool = l,
                                                !.count_pool = c]) = last.res
                   /\ sample => last.res.val = <<621, 625>>
           /\ Called("get_spent_calories")
                => /\ last.res = Ok(Mul(Mul(Add(speed, <<11, 10>>), R(2)), o.weight))
                   /\ sample => last.res.val = R(336)

C5_Witness ==
    /\ Called("get_distance") /\ Self.cls = "Swimming"
    /\ Self.action = R(720) /\ Self.duration = R(1)
    /\ Self.length_pool = R(25) /\ Self.count_pool = R(40)
    /\ last.res = Ok(<<621, 625>>)
    /\ last.res.val # Mul(PoolSpeed(Self), Self.duration)

\* what C6 says of the InfoMessage show_training_info() returned
C6_Report ==
    LET o == Self
        r == last.res
    IN  /\ r.ok
        /\ r.val.training_type = o.cls
        /\ r.val.duration = o.duration
        /\ Ok(r.val.distance) = get_distance(o)
        /\ Ok(r.val.speed) = get_mean_speed(o)
        /\ Ok(r.val.calories) = get_spent_calories(o)
        /\ o.cls = "Swimming" => r.val.speed = PoolSpeed(o)
        /\ o.cls # "Swimming" => r.val.speed = StepSpeed(o)

\* C6 as stated: for every concrete variant instance with duration > 0,
\* show_training_info() returns an InfoMessage with the class name, the
\* duration unchanged and the values of get_distance(), get_mean_speed() and
\* get_spent_calories() of that instance.
C6_ReportWheneverDurationPositive ==
    (Called("show_training_info") /\ Self.cls \in Subclasses /\ Pos(Self.duration))
    => C6_Report

\* C6 amended: the same, for every concrete variant instance with
\* duration > 0 and, for SportsWalking, height # 0; a SportsWalking instance
\* with height = 0 gets a division-by-zero error and no InfoMessage.
C6_ReportFields ==
    (Called("show_training_info") /\ Self.cls \in Subclasses /\ Pos(Self.duration))
    => IF Self.cls = "SportsWalking" /\ IsZero(Self.height)
       THEN Raised(last.res, "ZeroDivisionError")
       ELSE C6_Report

C6_Witness ==
    /\ Called("show_training_info") /\ Self.cls = "Swimming"
    /\ last.res.ok
    /\ last.res.val.training_type = "Swimming"
    /\ last.res.val.speed = R(1)
    /\ last.res.val.distance = <<621, 625>>
    /\ last.res.val.calories = R(336)

\* C7: computing a report is free of hidden state: no call of
\* get_distance(), get_mean_speed(), get_spent_calories() or
\* show_training_info(), on any instance, changes the fields of any instance
\* or the class constants, and all the show_training_info() calls on one
\* instance return equal InfoMessages.
C7_NoHiddenState ==
    /\ [](cls = ClassAttrs /\ \A s \in Refs : Cardinality(reports[s]) <= 1)
    /\ [][(last'.op \in MethodOps) => (objs' = objs /\ cls' = cls)]_vars

C7_Witness ==
    /\ Called("show_training_info") /\ last.ref = "b" /\ last.res.ok
    /\ objs["a"].cls = "Swimming" /\ objs["b"].cls = "Running"
    /\ reports["a"] # {} /\ reports["b"] = {last.res.val}

\* what C8 says of get_spent_calories() and of instances of read_package
C8_Calories ==
    /\ Called("get_spent_calories")
         => (Raised(last.res, "NotImplementedError") <=> Self.cls = "Training")
    /\ (last.op \in MethodOps /\ origin[last.ref] = "read_package")
         => ~Raised(last.res, "NotImplementedError")
    /\ (Called("show_training_info") /\ Self.cls = "Training") => ~last.res.ok

\* C8 as stated: the not-implemented error is raised by get_spent_calories(),
\* and therefore by show_training_info(), exactly when the instance is a
\* direct instance of Training, and never for an instance of read_package.
C8_NotImplementedIffBase ==
    /\ C8_Calories
    /\ Called("show_training_info")
         => (Raised(last.res, "NotImplementedError") <=> Self.cls = "Training")

\* C8 amended: get_spent_calories() raises the not-implemented error exactly
\* on direct instances of Training; show_training_info() raises it exactly
\* on direct instances of Training whose duration is not zero (with
\* duration zero it fails earlier, with the division-by-zero error of
\* get_mean_speed()), and returns no InfoMessage either way; it is never
\* raised for an instance returned by read_package.
C8_NotImplemented ==
    /\ C8_Calories
    /\ Called("show_training_info")
         => /\ Raised(last.res, "NotImplementedError")
                 <=> (Self.cls = "Training" /\ ~IsZero(Self.duration))
            /\ (Self.cls = "Training" /\ IsZero(Self.duration))
                 => Raised(last.res, "ZeroDivisionError")

C8_Witness ==
    /\ Called("show_training_info") /\ Self.cls = "Training"
    /\ origin[last.ref] = "Training"
    /\ IsZero(Self.duration)
    /\ Raised(last.res, "ZeroDivisionError")

\* C9: zero duration is not rejected at construction, but for every variant
\* get_mean_speed(), get_spent_calories() and show_training_info() then fail
\* with a division-by-zero error, while get_distance() still succeeds.
C9_ZeroDuration ==
    /\ (Called("read_package") /\ last.workout_type \in DOMAIN traning_class
          /\ Len(last.data) = Arity(traning_class[last.workout_type])
          /\ IsZero(last.data[2]))
         => last.res.ok /\ IsZero(last.res.val.duration) /\ Self = last.res.val
    /\ (last.op \in MethodOps /\ Self.cls \in Subclasses /\ IsZero(Self.duration))
         => IF Called("get_distance") THEN last.res.ok
            ELSE Raised(last.res, "ZeroDivisionError")

C9_Witness ==
    /\ Called("show_training_info") /\ Self.cls = "Swimming"
    /\ origin[last.ref] = "read_package"
    /\ IsZero(Self.duration)
    /\ Raised(last.res, "ZeroDivisionError")

\* the kind code of entry i of the driver's list is a known one
Known(i) == packages[i][1] \in {"RUN", "WLK", "SWM"}

\* the lines written so far are exactly the two lines (the object, then its
\* message) of each of the first n entries, in order, followed by `extra`
\* lines of entry n + 1
Written(n, extra) ==
    /\ Len(stdout) = 2 * n + extra
    /\ \A k \in 1..Len(stdout) : stdout[k].entry = (k + 1) \div 2
    /\ \A k \in 1..Len(stdout) : (k % 2 = 1) <=> (stdout[k].line[1] = "object")

\* C10: the driver is a single in-order pass: the output of entry i is
\* written before entry i+1 is resolved; an entry with an unknown kind code
\* raises the error before anything is written for it, the error is not
\* caught or retried, the run ends with it, no later entry is resolved or
\* written, and the output of the earlier entries has been written.
C10_SinglePass ==
    /\ [](/\ pc \in {"for", "print_training", "done"} => Written(idx - 1, 0)
          /\ pc \in {"main", "main_print"} => Written(idx - 1, 1)
          /\ (pc = "failed" /\ exc = "ValueError")
                => /\ idx \in 1..Len(packages) /\ ~Known(idx)
                   /\ Written(idx - 1, 0)
                   /\ \A i \in 1..(idx - 1) : Known(i))
    /\ [][/\ pc # "failed" /\ pc # "done"
          /\ Len(stdout') >= Len(stdout) /\ SubSeq(stdout', 1, Len(stdout)) = stdout
          /\ idx' \in {idx, idx + 1}
          /\ (pc = "for" /\ idx <= Len(packages) /\ ~Known(idx))
                => (pc' = "failed" /\ exc' = "ValueError" /\ stdout' = stdout
                    /\ idx' = idx)]_vars

C10_Witness ==
    /\ pc = "failed" /\ exc = "ValueError"
    /\ Len(packages) = 3 /\ idx = 2
    /\ Len(stdout) = 2 /\ stdout[2].entry = 1

====
